---- MODULE Spec2Model ----
(***************************************************************************)
(* A model of src/src/main.rs: the two node functions run_default_node and *)
(* run_alt_node, each in a process of its own, and the update callback u_c *)
(* the library invokes for each of them.                                   *)
(*                                                                         *)
(* The DHT engine itself (veilid_core) is an external library: none of its *)
(* code is in the repository.  Every call into it is modelled by what the  *)
(* source shows of it: a call that returns Ok or an error, the outcome     *)
(* chosen nondeterministically, and a callback the library may invoke with *)
(* any update while the node's session exists.                             *)
(***************************************************************************)
EXTENDS Integers, Sequences, FiniteSets, TLC

----------------------------------------------------------------------------
(* Bounds of the model *)

\* longest input line (without its line end) typed at the default node
MaxLineLen == 2
\* highest sequence number a ValueChange update carries
MaxSeq == 2
\* most "DHT ValueChange" lines the callback's output is followed for
MaxPrinted == 2
\* most invocations of the callback blocked in tx.send at a time
MaxBlocked == 1

----------------------------------------------------------------------------
(* Program constants *)

\* let subkey: u32 = 2  (run_default_node)
subkey == 2
\* flume::bounded::<()>(1)
ReadyCapacity == 1
\* DHTSchema::smpl(2, ...): o_cnt
o_cnt == 2
\* DHTSchemaSMPLMember { m_cnt: 2 }
m_cnt == 2

\* for subkey in [0u32, 1, 2, 3]  (run_alt_node)
ReadSubkeys == <<0, 1, 2, 3>>

Nodes == {"default", "alt"}

\* VeilidAPIError: the variant the source names, and two of the others
ErrKinds == {"TryAgain", "Timeout", "KeyNotFound"}
Results == {"Ok"} \cup ErrKinds

\* The characters of an input line: a blank and a letter
Chars == {" ", "a"}

RECURSIVE SeqsUpTo(_)
SeqsUpTo(n) ==
  IF n = 0 THEN {<<>>}
  ELSE LET shorter == SeqsUpTo(n - 1)
       IN  shorter \cup {Append(s, c) : s \in {t \in shorter : Len(t) = n - 1}, c \in Chars}

\* The lines stdin can deliver (line ends left out)
Lines == SeqsUpTo(MaxLineLen)

\* str::trim on a line: leading and trailing blanks removed
RECURSIVE TrimStart(_)
TrimStart(s) ==
  IF s = <<>> THEN <<>>
  ELSE IF Head(s) = " " THEN TrimStart(Tail(s)) ELSE s

RECURSIVE TrimEnd(_)
TrimEnd(s) ==
  IF s = <<>> THEN <<>>
  ELSE IF s[Len(s)] = " " THEN TrimEnd(SubSeq(s, 1, Len(s) - 1)) ELSE s

trim(s) == TrimEnd(TrimStart(s))

\* The subkeys of the demo schema: o_cnt owner subkeys, then the member's m_cnt
SchemaSubkeys == 0 .. (o_cnt + m_cnt - 1)

\* The (subkey, sequence) pairs a ValueChange update can carry: the changes
\* of the one subkey the default node writes
EventPairs == {subkey} \X (1 .. MaxSeq)

----------------------------------------------------------------------------
VARIABLES
  dpc,        \* run_default_node: where the function is
  apc,        \* run_alt_node: where the function is
  sess,       \* per node: "none", "up" (api_startup returned Ok), "down" (shutdown returned)
  chan,       \* per node: messages queued in the ready channel
  cbBlocked,  \* per node: invocations of the callback blocked in tx.send
  keyFile,    \* owner_keys.txt: "absent", "empty", "kp" (first line), "full" (both lines),
              \* "rk" (the RecordKey line alone), "bad" (both lines, a value that does not parse)
  line,       \* run_default_node: the String `line` while its text is being written
  aSub,       \* run_alt_node: index into ReadSubkeys of the read under way
  dLast,      \* run_default_node: the last DHT operation issued and its result
  aLast,      \* run_alt_node: the last DHT operation issued and its result
  dErr,       \* run_default_node: the error the function returned ("none": none)
  aErr,       \* run_alt_node: the error the function returned ("none": none)
  aWatch,     \* run_alt_node: watch_dht_values has returned Ok
  wrote,      \* run_default_node: a set_dht_value has returned Ok
  seen,       \* the (subkey, sequence) pairs delivered to the alternate node's callback
  printed,    \* "DHT ValueChange" lines the alternate node's callback has printed
  attached,   \* per node: the callback has had an Attachment with public_internet_ready
  received,   \* per node: ready_rx.recv_async() has returned
  aContents,  \* run_alt_node: `contents`, the file as read ("none": not read)
  lastRead,   \* run_default_node: the last read_line: kind "line", "eof" or "err"
  lastSet,    \* run_default_node: the arguments of the last set_dht_value call
  aOk,        \* run_alt_node: the record operations that have returned Ok
  gets        \* run_alt_node: the get_dht_value calls made for the last ENTER

vars == <<dpc, apc, sess, chan, cbBlocked, keyFile, line, aSub, dLast, aLast,
          dErr, aErr, aWatch, wrote, seen, printed,
          attached, received,
          aContents,
          lastRead, lastSet,
          aOk, gets>>

NoOp == [op |-> "none", res |-> "Ok"]

\* No set_dht_value call yet
NoSet == [subkey |-> -1, data |-> <<>>, writer |-> "none"]

Init ==
  /\ dpc = "menu"
  /\ apc = "menu"
  /\ sess = [n \in Nodes |-> "none"]
  /\ chan = [n \in Nodes |-> 0]
  /\ cbBlocked = [n \in Nodes |-> 0]
  /\ keyFile \in {"absent", "full", "rk", "bad"}   \* none yet, or one left there
  /\ line = <<>>
  /\ aSub = 1
  /\ dLast = NoOp
  /\ aLast = NoOp
  /\ dErr = "none"
  /\ aErr = "none"
  /\ aWatch = FALSE
  /\ wrote = FALSE
  /\ seen = {}
  /\ printed = 0
  /\ attached = [n \in Nodes |-> FALSE]
  /\ received = [n \in Nodes |-> FALSE]
  /\ aContents = "none"
  /\ lastRead = [kind |-> "none", text |-> <<>>]
  /\ lastSet = NoSet
  /\ aOk = {}
  /\ gets = <<>>

----------------------------------------------------------------------------
(* The ready channel *)

\* A function that returns drops its ready_rx: the senders blocked on the
\* full channel get an error and return
DropReceiver(n) ==
  /\ chan' = [chan EXCEPT ![n] = 0]
  /\ cbBlocked' = [cbBlocked EXCEPT ![n] = 0]

\* RecvReady returning without a message in the channel
RecvReadyNoWait(n) ==
  /\ received' = [received EXCEPT ![n] = TRUE]
  /\ IF cbBlocked[n] > 0
       THEN /\ chan' = chan
            /\ cbBlocked' = [cbBlocked EXCEPT ![n] = cbBlocked[n] - 1]
       ELSE /\ chan' = [chan EXCEPT ![n] = IF chan[n] > 0 THEN chan[n] - 1 ELSE 0]
            /\ cbBlocked' = cbBlocked

\* ready_rx.recv_async().await: takes one message; a sender blocked on the
\* full channel then puts its own and returns
RecvReady(n) ==
  /\ chan[n] > 0
  /\ received' = [received EXCEPT ![n] = TRUE]
  /\ IF cbBlocked[n] > 0
       THEN /\ chan' = chan
            /\ cbBlocked' = [cbBlocked EXCEPT ![n] = cbBlocked[n] - 1]
       ELSE /\ chan' = [chan EXCEPT ![n] = chan[n] - 1]
            /\ cbBlocked' = cbBlocked

----------------------------------------------------------------------------
(* u_c: the update callback *)

UpdateKinds == {"Log", "AppMessage", "AppCall", "Attachment", "Network",
                "Config", "RouteChange", "ValueChange", "Shutdown"}

\* The library can invoke the callback of node n: the callback was handed
\* over (api_startup) and the node's function has not returned
CallbackLive(n) ==
  /\ sess[n] # "none"
  /\ (n = "default" => dpc \notin {"done", "err"})
  /\ (n = "alt" => apc \notin {"done", "err"})

\* VeilidUpdate::Attachment(att): tx.send(()) puts a message when the channel
\* has room and blocks the invocation when it is full
u_c_Attachment(n, public_internet_ready) ==
  /\ attached' = [attached EXCEPT ![n] = attached[n] \/ public_internet_ready]
  /\ IF public_internet_ready
       THEN IF chan[n] < ReadyCapacity
              THEN /\ chan' = [chan EXCEPT ![n] = chan[n] + 1]
                   /\ cbBlocked' = cbBlocked
              ELSE /\ cbBlocked[n] < MaxBlocked
                   /\ chan' = chan
                   /\ cbBlocked' = [cbBlocked EXCEPT ![n] = cbBlocked[n] + 1]
       ELSE UNCHANGED <<chan, cbBlocked>>
  /\ UNCHANGED <<seen, printed>>

\* VeilidUpdate::ValueChange(_veilid_value_change): the value is not looked
\* at, the line is printed
u_c_ValueChange(n, pair) ==
  /\ IF n = "alt"
       THEN /\ printed' = printed + 1
            /\ seen' = seen \cup {pair}
       ELSE UNCHANGED <<seen, printed>>
  /\ UNCHANGED <<chan, cbBlocked, attached>>

\* The variants that print a line or do nothing
u_c_Other(n) == UNCHANGED <<chan, cbBlocked, seen, printed, attached>>

u_c(n, kind, public_internet_ready, pair) ==
  CASE kind = "Attachment" -> u_c_Attachment(n, public_internet_ready)
    [] kind = "ValueChange" -> u_c_ValueChange(n, pair)
    [] OTHER -> u_c_Other(n)

\* The library invokes the callback.  A ValueChange goes to a node that has
\* registered a watch, once the subkey has been written, and the same pair
\* may come more than once.
Update(n) ==
  /\ CallbackLive(n)
  /\ \E kind \in UpdateKinds :
       \E ready \in (IF kind = "Attachment" THEN BOOLEAN ELSE {FALSE}) :
         \E pair \in (IF kind = "ValueChange" THEN EventPairs ELSE {<<subkey, 1>>}) :
           /\ kind = "ValueChange" => (n = "alt" /\ aWatch /\ wrote /\ printed < MaxPrinted)
           /\ u_c(n, kind, ready, pair)
  /\ UNCHANGED <<dpc, apc, sess, keyFile, line, aSub, dLast, aLast, dErr, aErr, aWatch, wrote>>
  /\ UNCHANGED <<received>>
  /\ UNCHANGED <<aContents>>
  /\ UNCHANGED <<lastRead, lastSet>>
  /\ UNCHANGED <<aOk, gets>>

----------------------------------------------------------------------------
(* run_default_node *)

\* The function returns Err(e): by `?`
DefFail(e) ==
  /\ dpc' = "err"
  /\ dErr' = e
  /\ DropReceiver("default")

\* main: "1" => run_default_node()
DefLaunch ==
  /\ dpc = "menu"
  /\ dpc' = "startup"
  /\ UNCHANGED <<apc, sess, chan, cbBlocked, keyFile, line, aSub, dLast, aLast,
                 dErr, aErr, aWatch, wrote, seen, printed>>
  /\ UNCHANGED <<attached, received>>
  /\ UNCHANGED <<aContents>>
  /\ UNCHANGED <<lastRead, lastSet>>
  /\ UNCHANGED <<aOk, gets>>

\* veilid_core::api_startup(update_callback, config).await?
DefStartup ==
  /\ dpc = "startup"
  /\ \E r \in Results :
       IF r = "Ok"
         THEN /\ dpc' = "attach"
              /\ sess' = [sess EXCEPT !["default"] = "up"]
              /\ UNCHANGED <<dErr, chan, cbBlocked>>
         ELSE /\ DefFail(r)
              /\ UNCHANGED sess
  /\ UNCHANGED <<apc, keyFile, line, aSub, dLast, aLast, aErr, aWatch, wrote, seen, printed>>
  /\ UNCHANGED <<attached, received>>
  /\ UNCHANGED <<aContents>>
  /\ UNCHANGED <<lastRead, lastSet>>
  /\ UNCHANGED <<aOk, gets>>

\* veilid.attach().await?
DefAttach ==
  /\ dpc = "attach"
  /\ \E r \in Results :
       IF r = "Ok"
         THEN /\ dpc' = "recv"
              /\ UNCHANGED <<dErr, chan, cbBlocked>>
         ELSE DefFail(r)
  /\ UNCHANGED <<apc, sess, keyFile, line, aSub, dLast, aLast, aErr, aWatch, wrote, seen, printed>>
  /\ UNCHANGED <<attached, received>>
  /\ UNCHANGED <<aContents>>
  /\ UNCHANGED <<lastRead, lastSet>>
  /\ UNCHANGED <<aOk, gets>>

\* ready_rx.recv_async().await?
DefRecvReady ==
  /\ dpc = "recv"
  /\ RecvReady("default")
  /\ dpc' = "setup"
  /\ UNCHANGED <<apc, sess, keyFile, line, aSub, dLast, aLast, dErr, aErr, aWatch, wrote,
                 seen, printed>>
  /\ UNCHANGED <<attached>>
  /\ UNCHANGED <<aContents>>
  /\ UNCHANGED <<lastRead, lastSet>>
  /\ UNCHANGED <<aOk, gets>>

\* routing_context()?, generate_keypair(..)?, generate_member_id(..)?,
\* DHTSchema::smpl(..)?, schema.validate()?
DefSetup ==
  /\ dpc = "setup"
  /\ \E r \in Results :
       IF r = "Ok"
         THEN /\ dpc' = "create"
              /\ UNCHANGED <<dErr, chan, cbBlocked>>
         ELSE DefFail(r)
  /\ UNCHANGED <<apc, sess, keyFile, line, aSub, dLast, aLast, aErr, aWatch, wrote, seen, printed>>
  /\ UNCHANGED <<attached, received>>
  /\ UNCHANGED <<aContents>>
  /\ UNCHANGED <<lastRead, lastSet>>
  /\ UNCHANGED <<aOk, gets>>

\* rc.create_dht_record(CRYPTO_KIND_VLD0, schema.clone(), None).await?
DefCreateRecord ==
  /\ dpc = "create"
  /\ \E r \in Results :
       /\ dLast' = [op |-> "create", res |-> r]
       /\ IF r = "Ok"
            THEN /\ dpc' = "fcreate"
                 /\ UNCHANGED <<dErr, chan, cbBlocked>>
            ELSE DefFail(r)
  /\ UNCHANGED <<apc, sess, keyFile, line, aSub, aLast, aErr, aWatch, wrote, seen, printed>>
  /\ UNCHANGED <<attached, received>>
  /\ UNCHANGED <<aContents>>
  /\ UNCHANGED <<lastRead, lastSet>>
  /\ UNCHANGED <<aOk, gets>>

\* File::create(&key_file_path)?: the file is there and empty
DefFileCreate ==
  /\ dpc = "fcreate"
  /\ \E ok \in BOOLEAN :
       IF ok
         THEN /\ dpc' = "fline1"
              /\ keyFile' = "empty"
              /\ UNCHANGED <<dErr, chan, cbBlocked>>
         ELSE /\ DefFail("Io")
              /\ UNCHANGED keyFile
  /\ UNCHANGED <<apc, sess, line, aSub, dLast, aLast, aErr, aWatch, wrote, seen, printed>>
  /\ UNCHANGED <<attached, received>>
  /\ UNCHANGED <<aContents>>
  /\ UNCHANGED <<lastRead, lastSet>>
  /\ UNCHANGED <<aOk, gets>>

\* writeln!(file, "owner_kp = {}", owner_kp)?
DefWriteOwnerKp ==
  /\ dpc = "fline1"
  /\ \E ok \in BOOLEAN :
       IF ok
         THEN /\ dpc' = "fline2"
              /\ keyFile' = "kp"
              /\ UNCHANGED <<dErr, chan, cbBlocked>>
         ELSE /\ DefFail("Io")
              /\ UNCHANGED keyFile
  /\ UNCHANGED <<apc, sess, line, aSub, dLast, aLast, aErr, aWatch, wrote, seen, printed>>
  /\ UNCHANGED <<attached, received>>
  /\ UNCHANGED <<aContents>>
  /\ UNCHANGED <<lastRead, lastSet>>
  /\ UNCHANGED <<aOk, gets>>

\* writeln!(file, "RecordKey = {}", record_key)?
DefWriteRecordKey ==
  /\ dpc = "fline2"
  /\ \E ok \in BOOLEAN :
       IF ok
         THEN /\ dpc' = "select"
              /\ keyFile' = "full"
              /\ UNCHANGED <<dErr, chan, cbBlocked>>
         ELSE /\ DefFail("Io")
              /\ UNCHANGED keyFile
  /\ UNCHANGED <<apc, sess, line, aSub, dLast, aLast, aErr, aWatch, wrote, seen, printed>>
  /\ UNCHANGED <<attached, received>>
  /\ UNCHANGED <<aContents>>
  /\ UNCHANGED <<lastRead, lastSet>>
  /\ UNCHANGED <<aOk, gets>>

\* line.clear(); select!: ctrl_c() => break
DefCtrlC ==
  /\ dpc = "select"
  /\ dpc' = "shutdown"
  /\ line' = <<>>
  /\ UNCHANGED <<apc, sess, chan, cbBlocked, keyFile, aSub, dLast, aLast, dErr, aErr,
                 aWatch, wrote, seen, printed>>
  /\ UNCHANGED <<attached, received>>
  /\ UNCHANGED <<aContents>>
  /\ UNCHANGED <<lastRead, lastSet>>
  /\ UNCHANGED <<aOk, gets>>

\* line.clear(); select!: stdin.read_line(&mut line): an error, the end of
\* the input (0 bytes), or a line
DefReadLine ==
  /\ dpc = "select"
  /\ \/ /\ DefFail("Io")
        /\ line' = <<>>
        /\ lastRead' = [kind |-> "err", text |-> <<>>]
     \/ /\ dpc' = "shutdown"
        /\ line' = <<>>
        /\ lastRead' = [kind |-> "eof", text |-> <<>>]
        /\ UNCHANGED <<dErr, chan, cbBlocked>>
     \/ \E input \in Lines :
          /\ lastRead' = [kind |-> "line", text |-> input]
          /\ IF trim(input) = <<>>
               THEN /\ dpc' = "select"      \* continue: line.clear() again
                    /\ line' = <<>>
               ELSE /\ dpc' = "set"
                    /\ line' = input
          /\ UNCHANGED <<dErr, chan, cbBlocked>>
  /\ UNCHANGED <<apc, sess, keyFile, aSub, dLast, aLast, aErr, aWatch, wrote, seen, printed>>
  /\ UNCHANGED <<attached, received>>
  /\ UNCHANGED <<aContents>>
  /\ UNCHANGED <<lastSet>>
  /\ UNCHANGED <<aOk, gets>>

\* SetArgs with the line as read for the data
SetArgsUntrimmed(l) == [subkey |-> subkey, data |-> l, writer |-> "owner_kp"]

\* let text = line.trim(); the arguments of set_dht_value: subkey,
\* text.as_bytes().to_vec(), owner_opts with writer: Some(owner_kp)
SetArgs(l) == [subkey |-> subkey, data |-> trim(l), writer |-> "owner_kp"]

\* rc.set_dht_value(record_key.clone(), subkey, text.as_bytes().to_vec(),
\*                  Some(owner_opts.clone())).await?
DefSetValue ==
  /\ dpc = "set"
  /\ lastSet' = SetArgs(line)
  /\ \E r \in Results :
       /\ dLast' = [op |-> "set", res |-> r]
       /\ IF r = "Ok"
            THEN /\ dpc' = "select"       \* the loop again: line.clear()
                 /\ line' = <<>>
                 /\ wrote' = TRUE
                 /\ UNCHANGED <<dErr, chan, cbBlocked>>
            ELSE /\ DefFail(r)
                 /\ UNCHANGED <<line, wrote>>
  /\ UNCHANGED <<apc, sess, keyFile, aSub, aLast, aErr, aWatch, seen, printed>>
  /\ UNCHANGED <<attached, received>>
  /\ UNCHANGED <<aContents>>
  /\ UNCHANGED <<lastRead>>
  /\ UNCHANGED <<aOk, gets>>

\* veilid.shutdown().await; Ok(())
DefShutdown ==
  /\ dpc = "shutdown"
  /\ dpc' = "done"
  /\ sess' = [sess EXCEPT !["default"] = "down"]
  /\ DropReceiver("default")
  /\ UNCHANGED <<apc, keyFile, line, aSub, dLast, aLast, dErr, aErr, aWatch, wrote, seen, printed>>
  /\ UNCHANGED <<attached, received>>
  /\ UNCHANGED <<aContents>>
  /\ UNCHANGED <<lastRead, lastSet>>
  /\ UNCHANGED <<aOk, gets>>

----------------------------------------------------------------------------
(* run_alt_node *)

\* The function returns Err(e): by `?` or by return Err(..)
AltFail(e) ==
  /\ apc' = "err"
  /\ aErr' = e
  /\ DropReceiver("alt")

\* main: "2" => run_alt_node()
AltLaunch ==
  /\ apc = "menu"
  /\ apc' = "load"
  /\ UNCHANGED <<dpc, sess, chan, cbBlocked, keyFile, line, aSub, dLast, aLast,
                 dErr, aErr, aWatch, wrote, seen, printed>>
  /\ UNCHANGED <<attached, received>>
  /\ UNCHANGED <<aContents>>
  /\ UNCHANGED <<lastRead, lastSet>>
  /\ UNCHANGED <<aOk, gets>>

\* contents.lines(): each line by its label and whether its value parses
FileLines(file) ==
  CASE file = "empty" -> <<>>
    [] file = "kp" -> <<[label |-> "owner_kp", good |-> TRUE]>>
    [] file = "rk" -> <<[label |-> "RecordKey", good |-> TRUE]>>
    [] file = "full" -> <<[label |-> "owner_kp", good |-> TRUE],
                          [label |-> "RecordKey", good |-> TRUE]>>
    [] file = "bad" -> <<[label |-> "owner_kp", good |-> TRUE],
                         [label |-> "RecordKey", good |-> FALSE]>>

\* for line in contents.lines(): strip_prefix("owner_kp =") and
\* strip_prefix("RecordKey ="), each with rest.trim().parse()?
RECURSIVE KeyLoop(_, _, _)
KeyLoop(lines, owner_kp, record_key) ==
  IF lines = <<>>
    THEN [owner_kp |-> owner_kp, record_key |-> record_key, err |-> FALSE]
    ELSE LET l == Head(lines)
         IN  IF ~l.good
               THEN [owner_kp |-> owner_kp, record_key |-> record_key, err |-> TRUE]
               ELSE KeyLoop(Tail(lines),
                            owner_kp \/ l.label = "owner_kp",
                            record_key \/ l.label = "RecordKey")

\* KeysComplete with one key enough
KeysCompleteEither(owner_kp, record_key) == owner_kp \/ record_key

\* match (owner_kp, record_key) { (Some(seck), Some(rk)) => .., _ => return Err }
KeysComplete(owner_kp, record_key) == owner_kp /\ record_key

\* What reading owner_keys.txt ends with when the file reads
LoadOutcome(file) ==
  IF file = "absent" THEN "NoFile"
  ELSE IF FileLines(file) = <<>> THEN "Empty"
  ELSE LET k == KeyLoop(FileLines(file), FALSE, FALSE)
       IN  IF k.err THEN "Parse"
           ELSE IF KeysComplete(k.owner_kp, k.record_key) THEN "Ok" ELSE "Missing"

\* path.exists(), fs::read_to_string(&path)?, contents.trim().is_empty(),
\* the loop over contents.lines() with its two parse()?, the match on
\* (owner_kp, record_key).  A value the default node wrote may fail to parse
\* (the library's parse); reading may fail.
AltLoadKeys ==
  /\ apc = "load"
  /\ \/ /\ LoadOutcome(keyFile) = "Ok"
        /\ aContents' = keyFile
        /\ apc' = "startup"
        /\ UNCHANGED <<aErr, chan, cbBlocked>>
     \/ /\ LoadOutcome(keyFile) # "Ok"
        /\ aContents' = keyFile
        /\ AltFail(LoadOutcome(keyFile))
     \/ /\ keyFile # "absent"
        /\ aContents' = aContents
        /\ AltFail("Io")
     \/ /\ keyFile \in {"kp", "rk", "full"}
        /\ aContents' = keyFile
        /\ AltFail("Parse")
  /\ UNCHANGED <<dpc, sess, keyFile, line, aSub, dLast, aLast, dErr, aWatch, wrote, seen, printed>>
  /\ UNCHANGED <<attached, received>>
  /\ UNCHANGED <<lastRead, lastSet>>
  /\ UNCHANGED <<aOk, gets>>

\* veilid_core::api_startup(update_callback, config).await?
AltStartup ==
  /\ apc = "startup"
  /\ \E r \in Results :
       IF r = "Ok"
         THEN /\ apc' = "attach"
              /\ sess' = [sess EXCEPT !["alt"] = "up"]
              /\ UNCHANGED <<aErr, chan, cbBlocked>>
         ELSE /\ AltFail(r)
              /\ UNCHANGED sess
  /\ UNCHANGED <<dpc, keyFile, line, aSub, dLast, aLast, dErr, aWatch, wrote, seen, printed>>
  /\ UNCHANGED <<attached, received>>
  /\ UNCHANGED <<aContents>>
  /\ UNCHANGED <<lastRead, lastSet>>
  /\ UNCHANGED <<aOk, gets>>

\* veilid.attach().await?
AltAttach ==
  /\ apc = "attach"
  /\ \E r \in Results :
       IF r = "Ok"
         THEN /\ apc' = "recv"
              /\ UNCHANGED <<aErr, chan, cbBlocked>>
         ELSE AltFail(r)
  /\ UNCHANGED <<dpc, sess, keyFile, line, aSub, dLast, aLast, dErr, aWatch, wrote, seen, printed>>
  /\ UNCHANGED <<attached, received>>
  /\ UNCHANGED <<aContents>>
  /\ UNCHANGED <<lastRead, lastSet>>
  /\ UNCHANGED <<aOk, gets>>

\* ready_rx.recv_async().await?
AltRecvReady ==
  /\ apc = "recv"
  /\ RecvReady("alt")
  /\ apc' = "rctx"
  /\ UNCHANGED <<dpc, sess, keyFile, line, aSub, dLast, aLast, dErr, aErr, aWatch, wrote,
                 seen, printed>>
  /\ UNCHANGED <<attached>>
  /\ UNCHANGED <<aContents>>
  /\ UNCHANGED <<lastRead, lastSet>>
  /\ UNCHANGED <<aOk, gets>>

\* let rc = veilid.routing_context()?; veilid.routing_context()?
AltRoutingContext ==
  /\ apc = "rctx"
  /\ \E r \in Results :
       IF r = "Ok"
         THEN /\ apc' = "open"
              /\ UNCHANGED <<aErr, chan, cbBlocked>>
         ELSE AltFail(r)
  /\ UNCHANGED <<dpc, sess, keyFile, line, aSub, dLast, aLast, dErr, aWatch, wrote, seen, printed>>
  /\ UNCHANGED <<attached, received>>
  /\ UNCHANGED <<aContents>>
  /\ UNCHANGED <<lastRead, lastSet>>
  /\ UNCHANGED <<aOk, gets>>

\* .open_dht_record(record_key.clone(), Some(owner_kp)).await?
AltOpenRecord ==
  /\ apc = "open"
  /\ \E r \in Results :
       /\ aLast' = [op |-> "open", res |-> r]
       /\ aOk' = IF r = "Ok" THEN aOk \cup {"open"} ELSE aOk
       /\ IF r = "Ok"
            THEN /\ apc' = "inspect"
                 /\ UNCHANGED <<aErr, chan, cbBlocked>>
            ELSE AltFail(r)
  /\ UNCHANGED <<dpc, sess, keyFile, line, aSub, dLast, dErr, aWatch, wrote, seen, printed>>
  /\ UNCHANGED <<attached, received>>
  /\ UNCHANGED <<aContents>>
  /\ UNCHANGED <<lastRead, lastSet>>
  /\ UNCHANGED <<gets>>

\* InspectMatch with every error retried, not TryAgain alone
InspectMatchRetryAll(r) ==
  CASE r = "Ok" -> /\ apc' = "watch"
                   /\ UNCHANGED <<aErr, chan, cbBlocked>>
    [] OTHER -> /\ apc' = "sleep"
                /\ UNCHANGED <<aErr, chan, cbBlocked>>

\* The match on the result of inspect_dht_record inside the loop:
\* Ok(r) => break r, Err(TryAgain) => sleep, Err(e) => return Err(e.into())
InspectMatch(r) ==
  CASE r = "Ok" -> /\ apc' = "watch"
                   /\ UNCHANGED <<aErr, chan, cbBlocked>>
    [] r = "TryAgain" -> /\ apc' = "sleep"
                         /\ UNCHANGED <<aErr, chan, cbBlocked>>
    [] OTHER -> AltFail(r)

\* rc.inspect_dht_record(record_key.clone(), None, DHTReportScope::SyncGet).await
AltInspect ==
  /\ apc = "inspect"
  /\ \E r \in Results :
       /\ aLast' = [op |-> "inspect", res |-> r]
       /\ aOk' = IF r = "Ok" THEN aOk \cup {"inspect"} ELSE aOk
       /\ InspectMatch(r)
  /\ UNCHANGED <<dpc, sess, keyFile, line, aSub, dLast, dErr, aWatch, wrote, seen, printed>>
  /\ UNCHANGED <<attached, received>>
  /\ UNCHANGED <<aContents>>
  /\ UNCHANGED <<lastRead, lastSet>>
  /\ UNCHANGED <<gets>>

\* tokio::time::sleep(Duration::from_millis(500)).await, then the loop again
AltSleep ==
  /\ apc = "sleep"
  /\ apc' = "inspect"
  /\ UNCHANGED <<dpc, sess, chan, cbBlocked, keyFile, line, aSub, dLast, aLast,
                 dErr, aErr, aWatch, wrote, seen, printed>>
  /\ UNCHANGED <<attached, received>>
  /\ UNCHANGED <<aContents>>
  /\ UNCHANGED <<lastRead, lastSet>>
  /\ UNCHANGED <<aOk, gets>>

\* rc.watch_dht_values(record_key.clone(), None, None, None).await?
AltWatch ==
  /\ apc = "watch"
  /\ \E r \in Results :
       /\ aLast' = [op |-> "watch", res |-> r]
       /\ aOk' = IF r = "Ok" THEN aOk \cup {"watch"} ELSE aOk
       /\ IF r = "Ok"
            THEN /\ apc' = "select"
                 /\ \E watch_active \in BOOLEAN : aWatch' = watch_active
                 /\ UNCHANGED <<aErr, chan, cbBlocked>>
            ELSE /\ AltFail(r)
                 /\ UNCHANGED aWatch
  /\ UNCHANGED <<dpc, sess, keyFile, line, aSub, dLast, dErr, wrote, seen, printed>>
  /\ UNCHANGED <<attached, received>>
  /\ UNCHANGED <<aContents>>
  /\ UNCHANGED <<lastRead, lastSet>>
  /\ UNCHANGED <<gets>>

\* select!: ctrl_c() => break
AltCtrlC ==
  /\ apc = "select"
  /\ apc' = "shutdown"
  /\ UNCHANGED <<dpc, sess, chan, cbBlocked, keyFile, line, aSub, dLast, aLast,
                 dErr, aErr, aWatch, wrote, seen, printed>>
  /\ UNCHANGED <<attached, received>>
  /\ UNCHANGED <<aContents>>
  /\ UNCHANGED <<lastRead, lastSet>>
  /\ UNCHANGED <<aOk, gets>>

\* select!: stdin.read_line(&mut line): an error, the end of the input
\* (0 bytes), or a line, whatever it holds
AltReadLine ==
  /\ apc = "select"
  /\ \/ /\ AltFail("Io")
        /\ UNCHANGED gets
     \/ /\ apc' = "shutdown"
        /\ UNCHANGED <<aErr, chan, cbBlocked, gets>>
     \/ /\ apc' = "read"
        /\ gets' = <<>>
        /\ UNCHANGED <<aErr, chan, cbBlocked>>
  /\ UNCHANGED <<dpc, sess, keyFile, line, aSub, dLast, aLast, dErr, aWatch, wrote, seen, printed>>
  /\ UNCHANGED <<attached, received>>
  /\ UNCHANGED <<aContents>>
  /\ UNCHANGED <<lastRead, lastSet>>
  /\ UNCHANGED <<aOk>>

\* GetArgs with the subkeys taken from the last to the first
GetArgsReversed(i) ==
  [subkey |-> ReadSubkeys[Len(ReadSubkeys) + 1 - i], force_refresh |-> FALSE]

\* The arguments of the i-th get_dht_value of the for loop:
\* rc.get_dht_value(record_key.clone(), subkey, false)
GetArgs(i) == [subkey |-> ReadSubkeys[i], force_refresh |-> FALSE]

\* for subkey in [0u32, 1, 2, 3]: rc.get_dht_value(record_key.clone(), subkey, false).await?
AltGetValue ==
  /\ apc = "read"
  /\ gets' = Append(gets, GetArgs(aSub))
  /\ \E r \in Results :
       /\ aLast' = [op |-> "get", res |-> r]
       /\ IF r = "Ok"
            THEN /\ IF aSub = Len(ReadSubkeys)
                      THEN /\ apc' = "select"
                           /\ aSub' = 1
                      ELSE /\ apc' = "read"
                           /\ aSub' = aSub + 1
                 /\ UNCHANGED <<aErr, chan, cbBlocked>>
            ELSE /\ AltFail(r)
                 /\ UNCHANGED aSub
  /\ UNCHANGED <<dpc, sess, keyFile, line, dLast, dErr, aWatch, wrote, seen, printed>>
  /\ UNCHANGED <<attached, received>>
  /\ UNCHANGED <<aContents>>
  /\ UNCHANGED <<lastRead, lastSet>>
  /\ UNCHANGED <<aOk>>

\* veilid.shutdown().await; Ok(())
AltShutdown ==
  /\ apc = "shutdown"
  /\ apc' = "done"
  /\ sess' = [sess EXCEPT !["alt"] = "down"]
  /\ DropReceiver("alt")
  /\ UNCHANGED <<dpc, keyFile, line, aSub, dLast, aLast, dErr, aErr, aWatch, wrote, seen, printed>>
  /\ UNCHANGED <<attached, received>>
  /\ UNCHANGED <<aContents>>
  /\ UNCHANGED <<lastRead, lastSet>>
  /\ UNCHANGED <<aOk, gets>>

----------------------------------------------------------------------------
(* The system *)

DefNext ==
  \/ DefLaunch \/ DefStartup \/ DefAttach \/ DefRecvReady \/ DefSetup
  \/ DefCreateRecord \/ DefFileCreate \/ DefWriteOwnerKp \/ DefWriteRecordKey
  \/ DefCtrlC \/ DefReadLine \/ DefSetValue \/ DefShutdown

AltNext ==
  \/ AltLaunch \/ AltLoadKeys \/ AltStartup \/ AltAttach \/ AltRecvReady
  \/ AltRoutingContext \/ AltOpenRecord \/ AltInspect \/ AltSleep \/ AltWatch
  \/ AltCtrlC \/ AltReadLine \/ AltGetValue \/ AltShutdown

Next == DefNext \/ AltNext \/ (\E n \in Nodes : Update(n))

Spec == Init /\ [][Next]_vars

\* The alternate node's task is scheduled: a step it can take, it takes
LiveSpec == Spec /\ WF_vars(AltNext)

----------------------------------------------------------------------------
(* The DHT operations each node issues *)

DefDhtOp == DefCreateRecord \/ DefSetValue

AltDhtOp == AltOpenRecord \/ AltInspect \/ AltWatch \/ AltGetValue

\* The last operation was an inspect that answered TryAgain
Retried(last) == last.op = "inspect" /\ last.res = "TryAgain"

----------------------------------------------------------------------------
(* C6 *)

\* C6: the subscriber observes exactly one notification per unique
\* (subkeyIndex, sequence) pair, also when the same event is delivered more
\* than once: the callback has printed as many "DHT ValueChange" lines as
\* distinct pairs were delivered to it.
C6_OneNotificationPerPair == printed = Cardinality(seen)

----------------------------------------------------------------------------
(* C8 *)

\* C8: from the alternate node's first inspect_dht_record call on, the retry
\* loop eventually leaves, with a report (on to watch_dht_values) or with an
\* error.
C8_InspectLoopEnds == (apc = "inspect") ~> (apc \in {"watch", "err"})

----------------------------------------------------------------------------
(* C9 *)

\* C9, the states: what the last operation's result has led to
C9_ErrorsEndFlow ==
  /\ (aLast.res # "Ok" /\ ~Retried(aLast)) => (apc = "err" /\ aErr = aLast.res)
  /\ Retried(aLast) => (apc \in {"sleep", "inspect"} /\ aErr = "none")
  /\ dLast.res # "Ok" => (dpc = "err" /\ dErr = dLast.res)

\* C9, the steps: which operation may be issued next
C9_NoOpAfterError ==
  /\ apc = "err" => ~AltDhtOp
  /\ dpc = "err" => ~DefDhtOp
  /\ (Retried(aLast) /\ AltDhtOp) => AltInspect

\* C9: TryAgain is the only error retried.  An inspect that answers TryAgain
\* leaves the alternate node in its loop, and the next operation it issues is
\* another inspect; any other error of inspect, and any error of create, set,
\* open, watch or get, ends the node's function with that error, and a
\* function that has ended with an error issues no DHT operation.
C9_OnlyTryAgainRetried == []C9_ErrorsEndFlow /\ [][C9_NoOpAfterError]_vars

\* An inspect of the alternate node answered an error other than TryAgain,
\* and the function has ended with it
C9_Witness ==
  /\ aLast = [op |-> "inspect", res |-> "Timeout"]
  /\ apc = "err"
  /\ aErr = "Timeout"

----------------------------------------------------------------------------
(* C13 *)

\* The node has been told it is ready: its callback has had an Attachment
\* update with public_internet_ready, and its main task has received the
\* signal
ReadyFor(n) == attached[n] /\ received[n]

\* C13, the steps: a DHT operation is issued by a node that is ready
C13_OpsWhenReady ==
  /\ DefDhtOp => ReadyFor("default")
  /\ AltDhtOp => ReadyFor("alt")

\* C13, the states: a node that has issued a DHT operation is ready
C13_OpsImplyReady ==
  /\ dLast.op # "none" => ReadyFor("default")
  /\ aLast.op # "none" => ReadyFor("alt")

\* C13: no DHT operation (create, open, inspect, watch, set, get) is issued
\* by a node before an Attachment update with public_internet_ready = true has
\* been delivered to that node's callback and the ready signal it sent has
\* been received by the node's main task.
C13_NoOpBeforeReady == []C13_OpsImplyReady /\ [][C13_OpsWhenReady]_vars

\* Both nodes have issued their first DHT operation, after being told ready
C13_Witness ==
  /\ dLast.op = "create"
  /\ aLast.op = "open"
  /\ ReadyFor("default") /\ ReadyFor("alt")

----------------------------------------------------------------------------
(* C14 *)

\* C14: a node function that has ended after its session was started has
\* performed shutdown: the session is down when the function has returned,
\* by Ok(()) or by an error.
C14_ReleasedOnReturn ==
  /\ (dpc \in {"done", "err"} /\ sess["default"] # "none") => sess["default"] = "down"
  /\ (apc \in {"done", "err"} /\ sess["alt"] # "none") => sess["alt"] = "down"

----------------------------------------------------------------------------
(* C15 *)

\* C15: the alternate node goes past the loading of its keys (starts a
\* session, opens the record, issues any DHT operation) only with a file
\* that held both lines, each with a value that parsed; with any other file
\* it has ended with an error, no session started.
C15_OpenOnlyWithBothKeys ==
  aContents # "full" =>
    /\ apc \in {"menu", "load", "err"}
    /\ sess["alt"] = "none"
    /\ aLast.op = "none"

\* The file held the credential line alone, and the function has ended
C15_Witness ==
  /\ aContents = "kp"
  /\ apc = "err"
  /\ aErr = "Missing"

----------------------------------------------------------------------------
(* C18 *)

\* C18: with the main task having received from the ready channel, no
\* invocation of the update callback is blocked on the channel: every
\* invocation returns.
C18_CallbackNeverBlocks == \A n \in Nodes : received[n] => cbBlocked[n] = 0

----------------------------------------------------------------------------
(* C19 *)

\* C19, the states
C19_WritesState ==
  /\ dpc = "set" => (lastRead = [kind |-> "line", text |-> line] /\ trim(line) # <<>>)
  /\ lastSet # NoSet =>
       /\ lastSet.subkey = 2
       /\ lastSet.writer = "owner_kp"
       /\ lastSet.data # <<>>
  /\ aLast.op # "set"

\* C19, the steps
C19_WritesStep ==
  /\ DefSetValue =>
       /\ dpc = "set" /\ dpc' # "set"
       /\ lastSet' = [subkey |-> 2, data |-> trim(lastRead.text), writer |-> "owner_kp"]
  /\ (DefReadLine /\ lastRead'.kind = "line") =>
       (dpc' = "set" <=> trim(lastRead'.text) # <<>>)
  /\ (dpc # "set" /\ dpc' = "set") => (DefReadLine /\ lastRead'.kind = "line")
  /\ (dpc = "set" /\ dpc' # "set") => DefSetValue
  /\ lastSet' # lastSet => DefSetValue

\* C19: every write the program issues goes to subkey 2 with the generated
\* member credential.  In the default node a line that is non-empty after
\* trimming causes exactly one set_dht_value, on subkey 2, carrying the
\* trimmed text; a line that is empty after trimming causes none; the
\* alternate node issues none.  So subkeys 0, 1 and 3 are never written.
C19_WritesOnlySubkey2 == []C19_WritesState /\ [][C19_WritesStep]_vars

\* A line with a leading blank was read and written, trimmed, to subkey 2
C19_Witness ==
  /\ lastRead = [kind |-> "line", text |-> <<" ", "a">>]
  /\ lastSet = [subkey |-> 2, data |-> <<"a">>, writer |-> "owner_kp"]
  /\ dLast = [op |-> "set", res |-> "Ok"]

----------------------------------------------------------------------------
(* C20 *)

\* C20, the states
C20_OrderState ==
  /\ "inspect" \in aOk => "open" \in aOk
  /\ "watch" \in aOk => "inspect" \in aOk
  /\ apc \in {"select", "read"} => aOk = {"open", "inspect", "watch"}
  /\ Len(gets) <= 4
  /\ \A i \in 1..Len(gets) : gets[i] = [subkey |-> i - 1, force_refresh |-> FALSE]
  /\ apc = "read" => Len(gets) < 4

\* C20, the steps
C20_OrderStep ==
  /\ AltInspect => "open" \in aOk
  /\ AltWatch => "inspect" \in aOk
  /\ AltGetValue => {"open", "inspect", "watch"} \subseteq aOk
  /\ (apc = "select" /\ apc' = "read") => gets' = <<>>
  /\ (apc = "read" /\ apc' = "select") => Len(gets') = 4
  /\ gets' # gets => (AltGetValue \/ AltReadLine)

\* C20: the alternate node issues its record operations in the order open,
\* inspect (repeated until it returns Ok), watch, get; and each ENTER reads
\* subkeys 0, 1, 2, 3 in that order, each with force_refresh false.
C20_AltOrder == []C20_OrderState /\ [][C20_OrderStep]_vars

\* An ENTER has been served in full: four reads, the last of subkey 3
C20_Witness ==
  /\ apc = "select"
  /\ Len(gets) = 4
  /\ gets[4].subkey = 3
  /\ aLast = [op |-> "get", res |-> "Ok"]

====
